---- MODULE Spec2Model ----
(***************************************************************************)
(* Task-state and recovery subsystem of the xauto web dashboard            *)
(* (src/web_dashboard.py): AutomationState (paired tasks, progress ledger, *)
(* snapshot file), TaskStateManager (TaskStatusRecord store), the          *)
(* automation worker thread, and the cancel / recover request handlers.    *)
(*                                                                         *)
(* Python lists are TLA+ sequences; Python position p (0-based) is element *)
(* p + 1 of the sequence.  A Python str is a sequence of one-character     *)
(* strings, so that str.strip() is computed and not assumed.               *)
(*                                                                         *)
(* The 'logs' list of a TaskStatusRecord is left out: every handler and    *)
(* worker step appends to it, and no branch of the code reads it.          *)
(***************************************************************************)
EXTENDS Integers, Sequences, FiniteSets, TLC

VARIABLES
    api,                \* an AutomationState object driven directly through its methods
    apiOut,             \* result of the last method call on that object
    now,                \* time.time() / datetime.now(), in whole seconds
    runs,               \* one entry per run_automation_async call: the worker
                        \* thread, its closure (state, task_id) and its position
    automation_states,  \* global dict task_id -> AutomationState (a run's object)
    active_threads,     \* global dict task_id -> thread (a run)
    task_status,        \* TaskStateManager.task_status (in memory)
    task_file,          \* task_state.json, key 'task_status'
    files,              \* automation_state_<task_id>.json snapshots, by task_id
    resp,               \* the last response to a start or recover request
    crashes,            \* number of times the process was killed and restarted
    cancels,            \* number of cancel requests that found their task
    fresh               \* TRUE from a restart until the first request after it

apiVars == <<api, apiOut>>

sysVars == <<now, runs, automation_states, active_threads, task_status, task_file, files, resp, crashes, cancels, fresh>>

vars == <<api, apiOut, now, runs, automation_states, active_threads, task_status, task_file, files, resp, crashes, cancels, fresh>>

----------------------------------------------------------------------------
(* Bounds of the model *)

\* longest tweet_links / reply_comments list a direct caller passes
MaxListLen == 2

\* the clock runs from 0 to MaxTime seconds
MaxTime == 1

\* start-job requests accepted, recover requests accepted, process kills,
\* cancel requests accepted
MaxStarts == 1
MaxRecovers == 1
MaxCrashes == 1
MaxCancels == 1

----------------------------------------------------------------------------
(* Strings *)

sEmpty == <<>>
sBlank == <<" ">>
sA     == <<"a">>
sPadB  == <<" ", "b", " ">>

\* the strings callers pass: empty, blank, plain, padded
Strings == {sEmpty, sBlank, sA, sPadB}

IsSpace(c) == c = " "

RECURSIVE LStrip(_)
LStrip(s) ==
    IF s = <<>> THEN s
    ELSE IF IsSpace(Head(s)) THEN LStrip(Tail(s)) ELSE s

RECURSIVE RStrip(_)
RStrip(s) ==
    IF s = <<>> THEN s
    ELSE IF IsSpace(s[Len(s)]) THEN RStrip(SubSeq(s, 1, Len(s) - 1)) ELSE s

\* str.strip()
Strip(s) == RStrip(LStrip(s))

Max(a, b) == IF a >= b THEN a ELSE b

\* lists of at most n elements of S
ListsUpTo(S, n) == UNION {[1..k -> S] : k \in 0..n}

----------------------------------------------------------------------------
(* AutomationState *)

\* one paired task, as appended by _create_paired_tasks for position i
PairedTask(i, tweet_url, comment) ==
    [index |-> i,
     tweet_url |-> Strip(tweet_url),
     comment |-> Strip(comment),
     original_tweet_index |-> i,
     original_comment_index |-> i]

\* the mutant: items numbered by their position in the output list
PairedTaskRenumbered(tweet_links, reply_comments, i, acc) ==
    LET tweet_url == IF i < Len(tweet_links) THEN tweet_links[i + 1] ELSE <<>>
        comment   == IF i < Len(reply_comments) THEN reply_comments[i + 1] ELSE <<>>
    IN  IF Strip(tweet_url) # <<>>
        THEN Append(acc, PairedTask(Len(acc), tweet_url, comment))
        ELSE acc

\* the mutant: items numbered from 1
PairedTaskOneBased(tweet_links, reply_comments, i, acc) ==
    LET tweet_url == IF i < Len(tweet_links) THEN tweet_links[i + 1] ELSE <<>>
        comment   == IF i < Len(reply_comments) THEN reply_comments[i + 1] ELSE <<>>
    IN  IF Strip(tweet_url) # <<>>
        THEN Append(acc, PairedTask(i + 1, tweet_url, comment))
        ELSE acc

\* body of the loop `for i in range(max_length)`: acc is paired_tasks so far
PairedTaskStep(tweet_links, reply_comments, i, acc) ==
    LET tweet_url == IF i < Len(tweet_links) THEN tweet_links[i + 1] ELSE <<>>
        comment   == IF i < Len(reply_comments) THEN reply_comments[i + 1] ELSE <<>>
    IN  IF Strip(tweet_url) # <<>>
        THEN Append(acc, PairedTask(i, tweet_url, comment))
        ELSE acc

RECURSIVE PairedTasksFrom(_, _, _, _)
PairedTasksFrom(tweet_links, reply_comments, i, acc) ==
    IF i >= Max(Len(tweet_links), Len(reply_comments)) THEN acc
    ELSE PairedTasksFrom(tweet_links, reply_comments, i + 1,
                         PairedTaskStep(tweet_links, reply_comments, i, acc))

\* AutomationState._create_paired_tasks
CreatePairedTasks(tweet_links, reply_comments) ==
    PairedTasksFrom(tweet_links, reply_comments, 0, <<>>)

\* AutomationState.__init__; t is datetime.now()
NewAutomationState(task_id, profile_name, tweet_links, reply_comments, actions, min_wait, max_wait, max_retries, t) ==
    [task_id |-> task_id,
     profile_name |-> profile_name,
     tweet_links |-> tweet_links,
     reply_comments |-> reply_comments,
     actions |-> actions,
     min_wait |-> min_wait,
     max_wait |-> max_wait,
     max_retries |-> max_retries,
     paired_tasks |-> CreatePairedTasks(tweet_links, reply_comments),
     processed_tasks |-> {},
     successful_tasks |-> {},
     failed_tasks |-> {},
     current_index |-> 0,
     start_time |-> t,
     last_updated |-> t]

\* the list comprehension of get_remaining_tasks from enumerate() position i on
RECURSIVE RemainingFrom(_, _, _)
RemainingFrom(paired_tasks, processed_tasks, i) ==
    IF i >= Len(paired_tasks) THEN <<>>
    ELSE (IF i \notin processed_tasks THEN <<paired_tasks[i + 1]>> ELSE <<>>)
         \o RemainingFrom(paired_tasks, processed_tasks, i + 1)

\* AutomationState.get_remaining_tasks
GetRemainingTasks(st) == RemainingFrom(st.paired_tasks, st.processed_tasks, 0)

\* the mutant: the index is recorded in the outcome set only
MarkWithoutProcessed(st, task_index, success, t) ==
    [st EXCEPT
        !.successful_tasks = IF success THEN @ \cup {task_index} ELSE @,
        !.failed_tasks     = IF success THEN @ ELSE @ \cup {task_index},
        !.last_updated     = t]

\* AutomationState.mark_task_processed; t is datetime.now()
MarkTaskProcessed(st, task_index, success, t) ==
    [st EXCEPT
        !.processed_tasks  = @ \cup {task_index},
        !.successful_tasks = IF success THEN @ \cup {task_index} ELSE @,
        !.failed_tasks     = IF success THEN @ ELSE @ \cup {task_index},
        !.last_updated     = t]

\* a float quotient n / d, kept exact as numerator and denominator
Ratio(n, d) == [num |-> n, den |-> d]
Zero == Ratio(0, 1)

\* AutomationState.get_progress_stats
GetProgressStats(st) ==
    LET total_tasks      == Len(st.paired_tasks)
        processed_count  == Cardinality(st.processed_tasks)
        successful_count == Cardinality(st.successful_tasks)
        failed_count     == Cardinality(st.failed_tasks)
    IN  [total_tasks |-> total_tasks,
         processed_count |-> processed_count,
         successful_count |-> successful_count,
         failed_count |-> failed_count,
         remaining_count |-> total_tasks - processed_count,
         success_rate |-> IF total_tasks > 0
                          THEN Ratio(successful_count * 100, total_tasks)
                          ELSE Zero,
         progress_percentage |-> IF total_tasks > 0
                                 THEN Ratio(processed_count * 100, total_tasks)
                                 ELSE Zero]

----------------------------------------------------------------------------
(* Snapshot file of an AutomationState *)

\* list(some_set) as json.dump writes it: the indices in ascending order
RECURSIVE SortedSeq(_)
SortedSeq(S) ==
    IF S = {} THEN <<>>
    ELSE LET m == CHOOSE x \in S : \A y \in S : x <= y
         IN  <<m>> \o SortedSeq(S \ {m})

\* set(some_list)
ToSet(seq) == {seq[k] : k \in 1..Len(seq)}

\* AutomationState.save_state: the state_data written to the file
Snapshot(st) ==
    [task_id |-> st.task_id,
     profile_name |-> st.profile_name,
     paired_tasks |-> st.paired_tasks,
     actions |-> st.actions,
     min_wait |-> st.min_wait,
     max_wait |-> st.max_wait,
     max_retries |-> st.max_retries,
     processed_tasks |-> SortedSeq(st.processed_tasks),
     successful_tasks |-> SortedSeq(st.successful_tasks),
     failed_tasks |-> SortedSeq(st.failed_tasks),
     current_index |-> st.current_index,
     start_time |-> st.start_time,
     last_updated |-> st.last_updated,
     stats |-> GetProgressStats(st)]

\* AutomationState.save_state applied to the snapshot store
SaveState(fs, st) == (st.task_id :> Snapshot(st)) @@ fs

\* the tweet_links / reply_comments lists rebuilt from stored paired tasks
StoredTweets(paired_tasks) == [k \in 1..Len(paired_tasks) |-> paired_tasks[k].tweet_url]
StoredComments(paired_tasks) == [k \in 1..Len(paired_tasks) |-> paired_tasks[k].comment]

\* the mutant: the work items come from re-running the builder on the
\* rebuilt lists, the stored ones are not restored
StateFromSnapshotRebuilt(snap, t) ==
    [NewAutomationState(snap.task_id, snap.profile_name, StoredTweets(snap.paired_tasks), StoredComments(snap.paired_tasks), snap.actions, snap.min_wait, snap.max_wait, snap.max_retries, t)
     EXCEPT !.processed_tasks = ToSet(snap.processed_tasks),
            !.successful_tasks = ToSet(snap.successful_tasks),
            !.failed_tasks = ToSet(snap.failed_tasks),
            !.current_index = snap.current_index,
            !.start_time = snap.start_time,
            !.last_updated = snap.last_updated]

\* AutomationState.load_state, for a file that exists and parses; t is the
\* datetime.now() of the constructor call, overwritten by the restore
StateFromSnapshot(snap, t) ==
    [NewAutomationState(snap.task_id, snap.profile_name, StoredTweets(snap.paired_tasks), StoredComments(snap.paired_tasks), snap.actions, snap.min_wait, snap.max_wait, snap.max_retries, t)
     EXCEPT !.paired_tasks = snap.paired_tasks,
            !.processed_tasks = ToSet(snap.processed_tasks),
            !.successful_tasks = ToSet(snap.successful_tasks),
            !.failed_tasks = ToSet(snap.failed_tasks),
            !.current_index = snap.current_index,
            !.start_time = snap.start_time,
            !.last_updated = snap.last_updated]

\* os.path.exists(state_file)
HasSnapshot(fs, task_id) == task_id \in DOMAIN fs

\* the mutant: the removal takes every snapshot file with it
CleanupEverything(fs, task_id) == [k \in {} |-> fs[k]]

\* AutomationState.cleanup applied to the snapshot store
Cleanup(fs, task_id) == [k \in DOMAIN fs \ {task_id} |-> fs[k]]

\* the top-level keys of state_data, in the order json.dump writes them
SnapshotKeys == <<"task_id", "profile_name", "paired_tasks", "actions", "min_wait", "max_wait", "max_retries", "processed_tasks", "successful_tasks", "failed_tasks", "current_index", "start_time", "last_updated", "stats">>

\* the keys of state_data that load_state subscripts
LoadedKeys == {"task_id", "profile_name", "paired_tasks", "actions", "min_wait", "max_wait", "max_retries", "processed_tasks", "successful_tasks", "failed_tasks", "current_index", "start_time", "last_updated"}

\* the file between open(state_file, 'w'), which truncates it, and the
\* close: the text of the first `written` keys, which is not a JSON document
PartialFile(written) == [partial |-> written]

\* json.load(f) returns (it raises JSONDecodeError on a partial text)
JsonLoads(content) == "partial" \notin DOMAIN content

\* the return value None of load_state
None == [none |-> TRUE]

\* AutomationState.load_state: None when the file does not exist, and None
\* from the except clause when json.load or a subscript raises; t is the
\* datetime.now() of the constructor call
LoadState(fs, task_id, t) ==
    IF ~HasSnapshot(fs, task_id) THEN None
    ELSE IF ~JsonLoads(fs[task_id]) THEN None
    ELSE IF ~(LoadedKeys \subseteq DOMAIN fs[task_id]) THEN None
    ELSE StateFromSnapshot(fs[task_id], t)

----------------------------------------------------------------------------
(* TaskStateManager: the TaskStatusRecord store *)

\* the statuses after which a record may be cleaned up
TerminalStatuses == {"completed", "error", "cancelled"}

MaxAgeHours == 24
SecondsPerHour == 3600

\* initial_task_data of run_automation_async
InitialTaskData(total, actions, t) ==
    [type |-> "automation",
     status |-> "running",
     progress |-> 0,
     total |-> total,
     current |-> 0,
     start_time |-> t,
     strategy |-> "standard",
     actions_enabled |-> actions]

\* TaskStateManager.add_task
AddTask(ts, task_id, task_data) == (task_id :> task_data) @@ ts

\* TaskStateManager.update_task: dict.update on an existing record only
UpdateTask(ts, task_id, updates) ==
    IF task_id \in DOMAIN ts
    THEN [ts EXCEPT ![task_id] = updates @@ @]
    ELSE ts

\* TaskStateManager.remove_task
RemoveTask(ts, task_id) == [k \in DOMAIN ts \ {task_id} |-> ts[k]]

\* get_task_status().get(task_id, {}).get('status')
StatusOf(ts, task_id) == IF task_id \in DOMAIN ts THEN ts[task_id].status ELSE "none"

\* the mutant: the age alone decides, whatever the status
CleanupCompletedTasksAnyStatus(ts, max_age_hours, t) ==
    LET cutoff_time == t - max_age_hours * SecondsPerHour
        tasks_to_remove == {k \in DOMAIN ts :
                               /\ "start_time" \in DOMAIN ts[k]
                               /\ ts[k].start_time < cutoff_time}
    IN  [k \in DOMAIN ts \ tasks_to_remove |-> ts[k]]

\* TaskStateManager.cleanup_completed_tasks(max_age_hours) at time t; a
\* record with no start_time is passed over
CleanupCompletedTasks(ts, max_age_hours, t) ==
    LET cutoff_time == t - max_age_hours * SecondsPerHour
        tasks_to_remove == {k \in DOMAIN ts :
                               /\ ts[k].status \in TerminalStatuses
                               /\ "start_time" \in DOMAIN ts[k]
                               /\ ts[k].start_time < cutoff_time}
    IN  [k \in DOMAIN ts \ tasks_to_remove |-> ts[k]]

\* TaskStateManager.load_state: the 'task_status' member of the document,
\* an empty mapping when there is no file; the JSON text keeps the string
\* keys and the numbers, strings, booleans and lists of the records
LoadTasks(tf) == tf

\* the mutant: update_task changes the record in memory only
StoreTasksOnAddAndRemove(ts) ==
    /\ task_status' = ts
    /\ task_file' = IF DOMAIN ts = DOMAIN task_status THEN task_file ELSE ts

\* every mutation of the store ends in TaskStateManager.save_state
StoreTasks(ts) ==
    /\ task_status' = ts
    /\ task_file' = IF ts = task_status THEN task_file ELSE ts

----------------------------------------------------------------------------
(* Requests and runs *)

sC == <<"c">>

ActionNames == {"like", "retweet", "reply"}

\* two targets, both non-empty after trimming
ReqGapless ==
    [profile_name |-> "p", tweet_links |-> <<sA, sPadB>>,
     reply_comments |-> <<sC>>,
     actions |-> [like |-> TRUE, retweet |-> FALSE, reply |-> TRUE],
     min_wait |-> 1, max_wait |-> 2, max_retries |-> 1]

\* the first target is blank: one item, with index 1
ReqGap ==
    [profile_name |-> "p", tweet_links |-> <<sBlank, sPadB>>,
     reply_comments |-> <<sA, sC>>,
     actions |-> [like |-> TRUE, retweet |-> FALSE, reply |-> FALSE],
     min_wait |-> 1, max_wait |-> 1, max_retries |-> 2]

sD == <<"d">>

\* four targets: the worker saves the state after the third and still has
\* one to go
ReqLong ==
    [profile_name |-> "p", tweet_links |-> <<sA, sPadB, sC, sD>>,
     reply_comments |-> <<sC>>,
     actions |-> [like |-> TRUE, retweet |-> FALSE, reply |-> TRUE],
     min_wait |-> 1, max_wait |-> 2, max_retries |-> 1]

\* four targets handled by a browser session that never fails
ReqReliable ==
    [profile_name |-> "reliable", tweet_links |-> <<sA, sPadB, sC, sD>>,
     reply_comments |-> <<sC>>,
     actions |-> [like |-> TRUE, retweet |-> FALSE, reply |-> FALSE],
     min_wait |-> 1, max_wait |-> 2, max_retries |-> 1]

\* the bodies POSTed to /api/automate
StartRequests == {ReqGapless, ReqGap}

\* bodies that start_automation has to judge: no target, no action, and a
\* waiting interval whose lower end is above its upper end
ReqNoTargets == [ReqGapless EXCEPT !.tweet_links = <<>>]
ReqNoAction == [ReqGapless EXCEPT !.actions = [like |-> FALSE, retweet |-> FALSE, reply |-> FALSE]]
ReqBadWait == [ReqGapless EXCEPT !.min_wait = 2, !.max_wait = 1]

InvalidRequests == {ReqNoTargets, ReqNoAction, ReqBadWait}

\* a body with max_retries 0, which start_automation passes on
ReqNoRetries == [ReqGapless EXCEPT !.max_retries = 0]

\* the bodies of the start requests whose jobs run under every retry policy
PolicyRequests == {ReqGapless, ReqGap, ReqNoRetries}

TaskIds == 0..MaxTime

NoParent == [task_id |-> -1]

\* no call of the executor has returned for the item in hand
NoResults == [called |-> FALSE]

\* the attempt ended in an exception
Raised == [raised |-> TRUE]

IsAlive(run) == run.pc \notin {"done", "dead"}

\* the worker is inside its loop over remaining_tasks with an item in hand
InLoop(run) == run.pc \in {"exec", "mark"} \/ (run.pc = "loop" /\ run.i < Len(run.remaining))

\* a thread that has ended (pc "done") or was killed (pc "dead"): its locals
\* are gone; the state object and what it executed are kept.  epoch is the
\* number of restarts before the run was created, mid_run whether a kill
\* found the worker inside its loop, broke whether the worker left its loop
\* by the break of the cancellation check, cancel_requested whether a cancel
\* request for its task id was accepted while the thread was alive
Ended(run, pc) == [run EXCEPT !.pc = pc, !.i = 0, !.remaining = <<>>, !.attempt = 0, !.success = FALSE, !.calls = 0, !.results = NoResults]

Starts == Cardinality({r \in 1..Len(runs) : runs[r].parent = NoParent})
Recovers == Cardinality({r \in 1..Len(runs) : runs[r].parent # NoParent})

\* the closure and thread created by one run_automation_async call
NewRun(task_id, state, parent) ==
    [task_id |-> task_id,
     st |-> state,
     pc |-> "start",
     i |-> 0,
     remaining |-> <<>>,
     attempt |-> 0,
     success |-> FALSE,
     calls |-> 0,
     results |-> NoResults,
     executed |-> {},
     mid_run |-> FALSE,
     broke |-> FALSE,
     cancel_requested |-> FALSE,
     epoch |-> crashes,
     parent |-> parent]

\* WebDashboard.run_automation_async, up to thread.start(); parent records
\* the state a recover request loaded (NoParent for a start request)
RunAutomationAsync(profile_name, tweet_links, reply_comments, actions, min_wait, max_wait, max_retries, parent) ==
    LET task_id == now
        state == NewAutomationState(task_id, profile_name, tweet_links, reply_comments, actions, min_wait, max_wait, max_retries, now)
    IN  /\ runs' = Append(runs, NewRun(task_id, state, parent))
        /\ automation_states' = (task_id :> (Len(runs) + 1)) @@ automation_states
        /\ StoreTasks(AddTask(task_status, task_id, InitialTaskData(Len(state.paired_tasks), actions, now)))
        /\ active_threads' = (task_id :> (Len(runs) + 1)) @@ active_threads

SysInit ==
    /\ now = 0
    /\ runs = <<>>
    /\ automation_states = <<>>
    /\ active_threads = <<>>
    /\ task_status = <<>>
    /\ task_file = <<>>
    /\ files = <<>>
    /\ resp = [op |-> "none"]
    /\ crashes = 0
    /\ cancels = 0
    /\ fresh = FALSE

\* time passes
Tick ==
    /\ now < MaxTime
    /\ now' = now + 1
    /\ UNCHANGED <<runs, automation_states, active_threads, task_status, task_file, files, resp, crashes, cancels, fresh>>

\* POST /api/automate
StartAutomation(requests) ==
    \E req \in requests :
        /\ fresh' = FALSE
        /\ UNCHANGED <<now, files, crashes, cancels>>
        /\ IF req.profile_name = ""
           THEN /\ resp' = [op |-> "start", code |-> 400, error |-> "Profile name is required"]
                /\ UNCHANGED <<runs, automation_states, active_threads, task_status, task_file>>
           ELSE IF req.tweet_links = <<>>
           THEN /\ resp' = [op |-> "start", code |-> 400, error |-> "Tweet links are required"]
                /\ UNCHANGED <<runs, automation_states, active_threads, task_status, task_file>>
           ELSE IF \A a \in DOMAIN req.actions : ~req.actions[a]
           THEN /\ resp' = [op |-> "start", code |-> 400, error |-> "At least one action must be selected"]
                /\ UNCHANGED <<runs, automation_states, active_threads, task_status, task_file>>
           ELSE /\ Starts < MaxStarts
                /\ RunAutomationAsync(req.profile_name, req.tweet_links, req.reply_comments, req.actions, req.min_wait, req.max_wait, req.max_retries, NoParent)
                /\ resp' = [op |-> "start", code |-> 200, task_id |-> now]

\* the remaining_tweets / remaining_comments loop of recover_automation:
\* `i` is the enumerate() position
RECURSIVE RecoverRemainingFrom(_, _, _)
RecoverRemainingFrom(paired_tasks, processed_tasks, i) ==
    IF i >= Len(paired_tasks) THEN <<>>
    ELSE (IF i \notin processed_tasks THEN <<paired_tasks[i + 1]>> ELSE <<>>)
         \o RecoverRemainingFrom(paired_tasks, processed_tasks, i + 1)

\* the mutant: a status record is registered for the job before the snapshot
\* is looked up
RecoverNotFoundRegisters(task_id) ==
    /\ resp' = [op |-> "recover", task_id |-> task_id, code |-> 404, error |-> "No saved state found for recovery", fresh |-> fresh]
    /\ StoreTasks(AddTask(task_status, task_id, InitialTaskData(0, [a \in ActionNames |-> FALSE], now)))
    /\ UNCHANGED <<runs, automation_states, active_threads, files>>

\* recover_automation when load_state returns None
RecoverNotFound(task_id) ==
    /\ resp' = [op |-> "recover", task_id |-> task_id, code |-> 404, error |-> "No saved state found for recovery", fresh |-> fresh]
    /\ UNCHANGED <<runs, automation_states, active_threads, task_status, task_file, files>>

\* the mutant: the loaded state is cleaned up before the status is looked at
RecoverAlreadyRunningCleansUp(task_id) ==
    /\ resp' = [op |-> "recover", task_id |-> task_id, code |-> 400, error |-> "Task is already running", fresh |-> fresh]
    /\ files' = Cleanup(files, task_id)
    /\ UNCHANGED <<runs, automation_states, active_threads, task_status, task_file>>

\* recover_automation when the status record of task_id says 'running'
RecoverAlreadyRunning(task_id) ==
    /\ resp' = [op |-> "recover", task_id |-> task_id, code |-> 400, error |-> "Task is already running", fresh |-> fresh]
    /\ UNCHANGED <<runs, automation_states, active_threads, task_status, task_file, files>>

\* recover_automation when remaining_tweets is empty
RecoverNothingRemaining(task_id) ==
    /\ resp' = [op |-> "recover", task_id |-> task_id, code |-> 400, error |-> "No remaining tweets to process", fresh |-> fresh]
    /\ UNCHANGED <<runs, automation_states, active_threads, task_status, task_file, files>>

\* the mutant: max_retries is left to the default of run_automation_async
RecoverStartDefaultRetries(task_id, state, remaining) ==
    /\ Recovers < MaxRecovers
    /\ RunAutomationAsync(state.profile_name, StoredTweets(remaining), StoredComments(remaining), state.actions, state.min_wait, state.max_wait, 3, [task_id |-> task_id, st |-> state])
    /\ files' = Cleanup(files, state.task_id)
    /\ resp' = [op |-> "recover", task_id |-> task_id, code |-> 200, new_task_id |-> now, remaining_count |-> Len(remaining), fresh |-> fresh]

\* recover_automation from run_automation_async on: the new job, the
\* clean-up of the old snapshot, the response
RecoverStart(task_id, state, remaining) ==
    /\ Recovers < MaxRecovers
    /\ RunAutomationAsync(state.profile_name, StoredTweets(remaining), StoredComments(remaining), state.actions, state.min_wait, state.max_wait, state.max_retries, [task_id |-> task_id, st |-> state])
    /\ files' = Cleanup(files, state.task_id)
    /\ resp' = [op |-> "recover", task_id |-> task_id, code |-> 200, new_task_id |-> now, remaining_count |-> Len(remaining), fresh |-> fresh]

\* POST /api/automation/recover/<task_id>
RecoverAutomation ==
    \E task_id \in TaskIds :
        /\ fresh' = FALSE
        /\ UNCHANGED <<now, crashes, cancels>>
        /\ IF ~HasSnapshot(files, task_id)
           THEN RecoverNotFound(task_id)
           ELSE IF StatusOf(task_status, task_id) = "running"
           THEN RecoverAlreadyRunning(task_id)
           ELSE LET state == StateFromSnapshot(files[task_id], now)
                    remaining == RecoverRemainingFrom(state.paired_tasks, state.processed_tasks, 0)
                IN  IF StoredTweets(remaining) = <<>>
                    THEN RecoverNothingRemaining(task_id)
                    ELSE RecoverStart(task_id, state, remaining)

\* DELETE /api/tasks/<task_id>
CancelTask ==
    \E task_id \in TaskIds :
        /\ fresh' = FALSE
        /\ UNCHANGED <<now, automation_states, crashes, resp>>
        /\ IF task_id \in DOMAIN task_status
           THEN LET saves == task_id \in DOMAIN automation_states
                    threaded == task_id \in DOMAIN active_threads
                IN  /\ cancels < MaxCancels
                    /\ cancels' = cancels + 1
                    /\ runs' = [r \in 1..Len(runs) |->
                                   IF runs[r].task_id = task_id /\ IsAlive(runs[r])
                                   THEN [runs[r] EXCEPT !.cancel_requested = TRUE]
                                   ELSE runs[r]]
                    /\ StoreTasks(UpdateTask(task_status, task_id, [status |-> "cancelled"]))
                    /\ files' = IF saves THEN SaveState(files, runs[automation_states[task_id]].st) ELSE files
                    /\ active_threads' = IF threaded
                                         THEN [k \in DOMAIN active_threads \ {task_id} |-> active_threads[k]]
                                         ELSE active_threads
           ELSE UNCHANGED <<runs, active_threads, task_status, task_file, files, cancels>>

\* the process is killed and started again: module initialisation and
\* initialize_task_state; no thread and no in-memory dict survives
Crash ==
    /\ crashes < MaxCrashes
    /\ crashes' = crashes + 1
    /\ fresh' = TRUE
    /\ runs' = [r \in 1..Len(runs) |->
                   IF IsAlive(runs[r])
                   THEN [Ended(runs[r], "dead") EXCEPT !.mid_run = InLoop(runs[r])]
                   ELSE runs[r]]
    /\ automation_states' = <<>>
    /\ active_threads' = <<>>
    /\ LET loaded == CleanupCompletedTasks(task_file, MaxAgeHours, now)
       IN  /\ task_status' = loaded
           /\ task_file' = loaded
    /\ resp' = [op |-> "none"]
    /\ UNCHANGED <<now, files, cancels>>

----------------------------------------------------------------------------
(* automation_worker: the thread of one run *)

\* the mutant: the items are drawn with replacement
DrawsWithReplacement(seq) == {[k \in 1..Len(seq) |-> seq[f[k]]] : f \in [1..Len(seq) -> 1..Len(seq)]}

\* random.shuffle(remaining_tasks): any order of the same items
Shuffles(seq) == {[k \in 1..Len(seq) |-> seq[p[k]]] : p \in Permutations(1..Len(seq))}

\* what AutomationStrategy.execute_actions can return: one bool per action
\* name, False for every action that is not enabled
ExecResults(actions) == {res \in [DOMAIN actions -> BOOLEAN] : \A a \in DOMAIN actions : res[a] => actions[a]}

\* the profiles whose browser session never fails: every enabled action
\* reports true and nothing raises
ReliableProfiles == {"reliable"}

\* what execute_actions returns under the profile of the job
ExecOutcomes(profile_name, actions) ==
    IF profile_name \in ReliableProfiles
    THEN {[a \in DOMAIN actions |-> actions[a]]}
    ELSE ExecResults(actions)

\* the mutant: every action of the result has to be true, enabled or not
AllActionsSucceeded(actions, res) == \A a \in DOMAIN res : res[a]

\* len(successful_actions) == len(enabled_actions)
AllEnabledSucceeded(actions, res) ==
    Cardinality({a \in DOMAIN res : res[a]}) = Cardinality({a \in DOMAIN actions : actions[a]})

\* int(((i + 1) / len(remaining_tasks)) * 100)
ProgressPercent(i, n) == ((i + 1) * 100) \div n

\* the part of the state no worker step changes
WorkerFrame == UNCHANGED <<now, crashes, cancels, fresh, resp>>

\* lines 1157-1197: strategy, driver set-up, remaining tasks in shuffled order
WorkerStart(r) ==
    LET run == runs[r]
    IN  /\ run.pc = "start"
        /\ WorkerFrame
        /\ UNCHANGED <<automation_states, active_threads, files>>
        /\ \/ \E order \in Shuffles(GetRemainingTasks(run.st)) :
                 /\ runs' = [runs EXCEPT ![r].pc = "loop", ![r].i = 0, ![r].remaining = order]
                 /\ UNCHANGED <<task_status, task_file>>
           \/ \* setup_driver() returned False
              /\ runs' = [runs EXCEPT ![r].pc = "finally"]
              /\ StoreTasks(UpdateTask(task_status, run.task_id, [status |-> "error"]))
           \/ \* TwitterAutomation(profile_name) or setup_driver() raised
              /\ runs' = [runs EXCEPT ![r].pc = "except"]
              /\ UNCHANGED <<task_status, task_file>>

\* lines 1200-1225: the head of the loop over remaining_tasks
WorkerLoop(r) ==
    LET run == runs[r]
        n == Len(run.remaining)
    IN  /\ run.pc = "loop"
        /\ WorkerFrame
        /\ UNCHANGED <<automation_states, active_threads, files>>
        /\ IF run.i >= n
           THEN /\ runs' = [runs EXCEPT ![r].pc = "final"]
                /\ UNCHANGED <<task_status, task_file>>
           ELSE IF StatusOf(task_status, run.task_id) = "cancelled"
           THEN /\ runs' = [runs EXCEPT ![r].pc = "final", ![r].broke = TRUE]
                /\ UNCHANGED <<task_status, task_file>>
           ELSE /\ runs' = [runs EXCEPT ![r].pc = "exec", ![r].attempt = 0, ![r].st.current_index = run.i]
                /\ StoreTasks(UpdateTask(task_status, run.task_id, [current |-> run.i + 1, progress |-> ProgressPercent(run.i, n)]))

\* the mutant: the exception of the last attempt is raised into the worker
WorkerAttemptRaises(r) ==
    LET run == runs[r]
        task == run.remaining[run.i + 1]
        actions == run.st.actions
        max_retries == run.st.max_retries
    IN  /\ run.pc = "exec"
        /\ WorkerFrame
        /\ UNCHANGED <<automation_states, active_threads, files>>
        /\ UNCHANGED <<task_status, task_file>>
        /\ IF run.attempt >= max_retries
           THEN runs' = [runs EXCEPT ![r].pc = "mark", ![r].success = FALSE]
           ELSE \/ \E res \in ExecOutcomes(run.st.profile_name, actions) :
                      IF AllEnabledSucceeded(actions, res)
                      THEN runs' = [runs EXCEPT ![r].pc = "mark", ![r].success = TRUE, ![r].executed = @ \cup {task.tweet_url}, ![r].calls = @ + 1, ![r].results = res]
                      ELSE IF run.attempt < max_retries - 1
                      THEN runs' = [runs EXCEPT ![r].attempt = @ + 1, ![r].executed = @ \cup {task.tweet_url}, ![r].calls = @ + 1, ![r].results = res]
                      ELSE runs' = [runs EXCEPT ![r].pc = "mark", ![r].success = FALSE, ![r].executed = @ \cup {task.tweet_url}, ![r].calls = @ + 1, ![r].results = res]
                \/ \* driver.get, the page wait or execute_actions raised
                   /\ run.st.profile_name \notin ReliableProfiles
                   /\ IF run.attempt < max_retries - 1
                      THEN runs' = [runs EXCEPT ![r].attempt = @ + 1, ![r].executed = @ \cup {task.tweet_url}, ![r].calls = @ + 1, ![r].results = Raised]
                      ELSE runs' = [runs EXCEPT ![r].pc = "except", ![r].executed = @ \cup {task.tweet_url}, ![r].calls = @ + 1, ![r].results = Raised]

\* WebDashboard._process_tweet_with_retries: one pass of `for attempt in
\* range(max_retries)`, or the `return False` after the loop
WorkerAttempt(r) ==
    LET run == runs[r]
        task == run.remaining[run.i + 1]
        actions == run.st.actions
        max_retries == run.st.max_retries
    IN  /\ run.pc = "exec"
        /\ WorkerFrame
        /\ UNCHANGED <<automation_states, active_threads, files>>
        /\ UNCHANGED <<task_status, task_file>>
        /\ IF run.attempt >= max_retries
           THEN runs' = [runs EXCEPT ![r].pc = "mark", ![r].success = FALSE]
           ELSE \/ \E res \in ExecOutcomes(run.st.profile_name, actions) :
                      IF AllEnabledSucceeded(actions, res)
                      THEN runs' = [runs EXCEPT ![r].pc = "mark", ![r].success = TRUE, ![r].executed = @ \cup {task.tweet_url}, ![r].calls = @ + 1, ![r].results = res]
                      ELSE IF run.attempt < max_retries - 1
                      THEN runs' = [runs EXCEPT ![r].attempt = @ + 1, ![r].executed = @ \cup {task.tweet_url}, ![r].calls = @ + 1, ![r].results = res]
                      ELSE runs' = [runs EXCEPT ![r].pc = "mark", ![r].success = FALSE, ![r].executed = @ \cup {task.tweet_url}, ![r].calls = @ + 1, ![r].results = res]
                \/ \* driver.get, the page wait or execute_actions raised
                   /\ run.st.profile_name \notin ReliableProfiles
                   /\ IF run.attempt < max_retries - 1
                      THEN runs' = [runs EXCEPT ![r].attempt = @ + 1, ![r].executed = @ \cup {task.tweet_url}, ![r].calls = @ + 1, ![r].results = Raised]
                      ELSE runs' = [runs EXCEPT ![r].pc = "mark", ![r].success = FALSE, ![r].executed = @ \cup {task.tweet_url}, ![r].calls = @ + 1, ![r].results = Raised]

\* every how many items of a run the worker saves the state
SaveEvery == 3

\* lines 1233-1271: mark the task, save the state periodically, wait before
\* the next task; random.randint(min_wait, max_wait) raises ValueError when
\* min_wait > max_wait
WorkerMark(r) ==
    LET run == runs[r]
        task == run.remaining[run.i + 1]
        marked == MarkTaskProcessed(run.st, task.index, run.success, now)
        saves == (run.i + 1) % SaveEvery = 0
        waits == run.i < Len(run.remaining) - 1
    IN  /\ run.pc = "mark"
        /\ WorkerFrame
        /\ UNCHANGED <<automation_states, active_threads, task_status, task_file>>
        /\ files' = IF saves THEN SaveState(files, marked) ELSE files
        /\ IF waits /\ run.st.min_wait > run.st.max_wait
           THEN runs' = [runs EXCEPT ![r].pc = "except", ![r].st = marked, ![r].calls = 0, ![r].results = NoResults]
           ELSE runs' = [runs EXCEPT ![r].pc = "loop", ![r].i = @ + 1, ![r].st = marked, ![r].calls = 0, ![r].results = NoResults]

\* lines 1273-1289: the final state save after the loop, then status 'completed'
WorkerComplete(r) ==
    LET run == runs[r]
    IN  /\ run.pc = "final"
        /\ WorkerFrame
        /\ UNCHANGED <<automation_states, active_threads>>
        /\ files' = SaveState(files, run.st)
        /\ StoreTasks(UpdateTask(task_status, run.task_id, [status |-> "completed"]))
        /\ runs' = [runs EXCEPT ![r].pc = "finally"]

\* lines 1291-1298: the except clause of the worker
WorkerExcept(r) ==
    LET run == runs[r]
    IN  /\ run.pc = "except"
        /\ WorkerFrame
        /\ UNCHANGED <<automation_states, active_threads>>
        /\ StoreTasks(UpdateTask(task_status, run.task_id, [status |-> "error"]))
        /\ files' = SaveState(files, run.st)
        /\ runs' = [runs EXCEPT ![r].pc = "finally"]

\* lines 1299-1306: the finally clause of the worker
WorkerFinally(r) ==
    LET run == runs[r]
    IN  /\ run.pc = "finally"
        /\ WorkerFrame
        /\ UNCHANGED <<task_status, task_file, files>>
        /\ active_threads' = [k \in DOMAIN active_threads \ {run.task_id} |-> active_threads[k]]
        /\ automation_states' = [k \in DOMAIN automation_states \ {run.task_id} |-> automation_states[k]]
        /\ runs' = [runs EXCEPT ![r] = Ended(@, "done")]

----------------------------------------------------------------------------
(* Direct use of an AutomationState object, as TEST/demo_paired_tasks.py    *)
(* and TEST/test_automation_restructure.py do: construct, mark, query.      *)

NoObject == [phase |-> "none"]

ApiInit ==
    /\ api = NoObject
    /\ apiOut = [op |-> "none"]
    /\ SysInit

\* state = AutomationState("demo_task_001", "demo_profile", tweet_links, ...)
ApiNew ==
    /\ api.phase = "none"
    /\ \E tweet_links \in ListsUpTo(Strings, MaxListLen),
          reply_comments \in ListsUpTo(Strings, MaxListLen) :
          api' = [phase |-> "live",
                  st |-> NewAutomationState("demo_task_001", "demo_profile",
                             tweet_links, reply_comments,
                             [like |-> TRUE, retweet |-> FALSE, reply |-> TRUE],
                             5, 15, 3, 0)]
    /\ apiOut' = [op |-> "new"]

\* state.mark_task_processed(task['index'], success) for a task of the job
ApiMark ==
    /\ api.phase = "live"
    /\ \E p \in 1..Len(api.st.paired_tasks), success \in BOOLEAN :
          LET task_index == api.st.paired_tasks[p].index
          IN  /\ api' = [api EXCEPT
                            !.st = MarkTaskProcessed(@, task_index, success, 0)]
              /\ apiOut' = [op |-> "mark", task_index |-> task_index,
                            success |-> success,
                            before |-> api.st.processed_tasks]

\* state.get_remaining_tasks()
ApiRemaining ==
    /\ api.phase = "live"
    /\ apiOut' = [op |-> "remaining", tasks |-> GetRemainingTasks(api.st)]
    /\ UNCHANGED api

\* state.get_progress_stats()
ApiStats ==
    /\ api.phase = "live"
    /\ apiOut' = [op |-> "stats", stats |-> GetProgressStats(api.st)]
    /\ UNCHANGED api

\* state.save_state(); loaded_state = AutomationState.load_state(task_id);
\* state.cleanup() -- the load happens a second after the construction
ApiSaveLoad ==
    /\ api.phase = "live"
    /\ LET saved == SaveState(files, api.st)
           task_id == api.st.task_id
       IN  /\ apiOut' = [op |-> "reload",
                         found |-> HasSnapshot(saved, task_id),
                         loaded |-> StateFromSnapshot(saved[task_id], now + 1),
                         snapshot |-> saved[task_id]]
           /\ files' = Cleanup(saved, task_id)
    /\ UNCHANGED api

ApiNext ==
    \/ ApiNew /\ UNCHANGED sysVars
    \/ ApiMark /\ UNCHANGED sysVars
    \/ ApiRemaining /\ UNCHANGED sysVars
    \/ ApiStats /\ UNCHANGED sysVars
    \/ ApiSaveLoad /\ UNCHANGED <<now, runs, automation_states, active_threads, task_status, task_file, resp, crashes, cancels, fresh>>

SpecApi == ApiInit /\ [][ApiNext]_vars

----------------------------------------------------------------------------
(* The dashboard process: requests, worker threads, kill and restart *)

Init ==
    /\ api = NoObject
    /\ apiOut = [op |-> "none"]
    /\ SysInit

Next ==
    \/ Tick /\ UNCHANGED apiVars
    \/ StartAutomation(StartRequests) /\ UNCHANGED apiVars
    \/ RecoverAutomation /\ UNCHANGED apiVars
    \/ CancelTask /\ UNCHANGED apiVars
    \/ Crash /\ UNCHANGED apiVars
    \/ \E r \in 1..Len(runs) : WorkerStart(r) /\ UNCHANGED apiVars
    \/ \E r \in 1..Len(runs) : WorkerLoop(r) /\ UNCHANGED apiVars
    \/ \E r \in 1..Len(runs) : WorkerAttempt(r) /\ UNCHANGED apiVars
    \/ \E r \in 1..Len(runs) : WorkerMark(r) /\ UNCHANGED apiVars
    \/ \E r \in 1..Len(runs) : WorkerComplete(r) /\ UNCHANGED apiVars
    \/ \E r \in 1..Len(runs) : WorkerExcept(r) /\ UNCHANGED apiVars
    \/ \E r \in 1..Len(runs) : WorkerFinally(r) /\ UNCHANGED apiVars

Spec == Init /\ [][Next]_vars

\* the same process running one long job, with no cancel request
NextRestart ==
    \/ Tick /\ UNCHANGED apiVars
    \/ StartAutomation({ReqLong}) /\ UNCHANGED apiVars
    \/ RecoverAutomation /\ UNCHANGED apiVars
    \/ Crash /\ UNCHANGED apiVars
    \/ \E r \in 1..Len(runs) : WorkerStart(r) /\ UNCHANGED apiVars
    \/ \E r \in 1..Len(runs) : WorkerLoop(r) /\ UNCHANGED apiVars
    \/ \E r \in 1..Len(runs) : WorkerAttempt(r) /\ UNCHANGED apiVars
    \/ \E r \in 1..Len(runs) : WorkerMark(r) /\ UNCHANGED apiVars
    \/ \E r \in 1..Len(runs) : WorkerComplete(r) /\ UNCHANGED apiVars
    \/ \E r \in 1..Len(runs) : WorkerExcept(r) /\ UNCHANGED apiVars
    \/ \E r \in 1..Len(runs) : WorkerFinally(r) /\ UNCHANGED apiVars

SpecRestart == Init /\ [][NextRestart]_vars

\* the same process receiving valid and invalid start requests, with no
\* recover or cancel request and no restart
NextStart ==
    \/ Tick /\ UNCHANGED apiVars
    \/ StartAutomation(InvalidRequests \cup PolicyRequests) /\ UNCHANGED apiVars
    \/ \E r \in 1..Len(runs) : WorkerStart(r) /\ UNCHANGED apiVars
    \/ \E r \in 1..Len(runs) : WorkerLoop(r) /\ UNCHANGED apiVars
    \/ \E r \in 1..Len(runs) : WorkerAttempt(r) /\ UNCHANGED apiVars
    \/ \E r \in 1..Len(runs) : WorkerMark(r) /\ UNCHANGED apiVars
    \/ \E r \in 1..Len(runs) : WorkerComplete(r) /\ UNCHANGED apiVars
    \/ \E r \in 1..Len(runs) : WorkerExcept(r) /\ UNCHANGED apiVars
    \/ \E r \in 1..Len(runs) : WorkerFinally(r) /\ UNCHANGED apiVars

SpecStart == Init /\ [][NextStart]_vars

\* the most runs one behaviour creates
MaxRuns == MaxStarts + MaxRecovers

\* one step of the thread of run r
RunnerStep(r) ==
    /\ r \in 1..Len(runs)
    /\ \/ WorkerStart(r)
       \/ WorkerLoop(r)
       \/ WorkerAttempt(r)
       \/ WorkerMark(r)
       \/ WorkerComplete(r)
       \/ WorkerExcept(r)
       \/ WorkerFinally(r)
    /\ UNCHANGED apiVars

\* the same process with start and recover requests only: no cancel request
\* and no kill
NextFair ==
    \/ Tick /\ UNCHANGED apiVars
    \/ StartAutomation(InvalidRequests \cup PolicyRequests) /\ UNCHANGED apiVars
    \/ RecoverAutomation /\ UNCHANGED apiVars
    \/ \E r \in 1..Len(runs) : WorkerStart(r) /\ UNCHANGED apiVars
    \/ \E r \in 1..Len(runs) : WorkerLoop(r) /\ UNCHANGED apiVars
    \/ \E r \in 1..Len(runs) : WorkerAttempt(r) /\ UNCHANGED apiVars
    \/ \E r \in 1..Len(runs) : WorkerMark(r) /\ UNCHANGED apiVars
    \/ \E r \in 1..Len(runs) : WorkerComplete(r) /\ UNCHANGED apiVars
    \/ \E r \in 1..Len(runs) : WorkerExcept(r) /\ UNCHANGED apiVars
    \/ \E r \in 1..Len(runs) : WorkerFinally(r) /\ UNCHANGED apiVars

\* every thread that can take a step is scheduled in the end (daemon threads
\* of one interpreter; every call of the worker returns or raises)
SpecFair == Init /\ [][NextFair]_vars /\ \A r \in 1..MaxRuns : WF_vars(RunnerStep(r))

----------------------------------------------------------------------------
(* cancel_task and the finally clause of the worker as the interpreter runs *)
(* them: the test `task_id in active_threads` and the `del` after it are    *)
(* two steps, and the other thread can run between them.  api holds the     *)
(* position of the one cancel request.                                      *)

\* cancel_task up to and including `if task_id in active_threads` and
\* `thread = active_threads[task_id]` (lines 2081-2102)
RegistryCancelEnter ==
    \E task_id \in TaskIds :
        /\ api.phase = "none"
        /\ cancels < MaxCancels
        /\ cancels' = cancels + 1
        /\ fresh' = FALSE
        /\ UNCHANGED <<now, automation_states, active_threads, crashes, resp, apiOut>>
        /\ IF task_id \in DOMAIN task_status
           THEN /\ runs' = [r \in 1..Len(runs) |->
                               IF runs[r].task_id = task_id /\ IsAlive(runs[r])
                               THEN [runs[r] EXCEPT !.cancel_requested = TRUE]
                               ELSE runs[r]]
                /\ StoreTasks(UpdateTask(task_status, task_id, [status |-> "cancelled"]))
                /\ files' = IF task_id \in DOMAIN automation_states
                            THEN SaveState(files, runs[automation_states[task_id]].st)
                            ELSE files
                /\ api' = IF task_id \in DOMAIN active_threads
                          THEN [phase |-> "cancel_del", task_id |-> task_id]
                          ELSE [phase |-> "cancel_done", task_id |-> task_id, code |-> 200]
           ELSE /\ UNCHANGED <<runs, task_status, task_file, files>>
                /\ api' = [phase |-> "cancel_done", task_id |-> task_id, code |-> 404]

\* cancel_task from `del active_threads[task_id]` on (lines 2112-2118); a
\* KeyError leaves the handler and the request is answered 500
RegistryCancelDelete ==
    /\ api.phase = "cancel_del"
    /\ UNCHANGED <<now, runs, automation_states, task_status, task_file, files, resp, crashes, cancels, fresh, apiOut>>
    /\ IF api.task_id \in DOMAIN active_threads
       THEN /\ active_threads' = [k \in DOMAIN active_threads \ {api.task_id} |-> active_threads[k]]
            /\ api' = [phase |-> "cancel_done", task_id |-> api.task_id, code |-> 200]
       ELSE /\ UNCHANGED active_threads
            /\ api' = [phase |-> "cancel_failed", task_id |-> api.task_id, code |-> 500]

\* the finally clause: `if task_id in active_threads` (line 1303)
RegistryFinallyTest(r) ==
    /\ runs[r].pc = "finally"
    /\ WorkerFrame
    /\ UNCHANGED <<automation_states, active_threads, task_status, task_file, files, api, apiOut>>
    /\ runs' = [runs EXCEPT ![r].pc = IF runs[r].task_id \in DOMAIN active_threads THEN "finally_del" ELSE "finally_states"]

\* the finally clause: `del active_threads[task_id]` (line 1304); a KeyError
\* ends the thread before the lines after it
RegistryFinallyDelete(r) ==
    /\ runs[r].pc = "finally_del"
    /\ WorkerFrame
    /\ UNCHANGED <<automation_states, task_status, task_file, files, api, apiOut>>
    /\ IF runs[r].task_id \in DOMAIN active_threads
       THEN /\ active_threads' = [k \in DOMAIN active_threads \ {runs[r].task_id} |-> active_threads[k]]
            /\ runs' = [runs EXCEPT ![r].pc = "finally_states"]
       ELSE /\ UNCHANGED active_threads
            /\ runs' = [runs EXCEPT ![r] = [Ended(@, "done") EXCEPT !.results = Raised]]

\* the finally clause: `if task_id in automation_states: del ...` (lines
\* 1305-1306); no other thread deletes from automation_states
RegistryFinallyStates(r) ==
    /\ runs[r].pc = "finally_states"
    /\ WorkerFrame
    /\ UNCHANGED <<active_threads, task_status, task_file, files, api, apiOut>>
    /\ automation_states' = [k \in DOMAIN automation_states \ {runs[r].task_id} |-> automation_states[k]]
    /\ runs' = [runs EXCEPT ![r] = Ended(@, "done")]

\* one job and one cancel request for it, at every point of the job's life
NextRegistry ==
    \/ Tick /\ UNCHANGED apiVars
    \/ StartAutomation(StartRequests) /\ UNCHANGED apiVars
    \/ RegistryCancelEnter
    \/ RegistryCancelDelete
    \/ \E r \in 1..Len(runs) : WorkerStart(r) /\ UNCHANGED apiVars
    \/ \E r \in 1..Len(runs) : WorkerLoop(r) /\ UNCHANGED apiVars
    \/ \E r \in 1..Len(runs) : WorkerAttempt(r) /\ UNCHANGED apiVars
    \/ \E r \in 1..Len(runs) : WorkerMark(r) /\ UNCHANGED apiVars
    \/ \E r \in 1..Len(runs) : WorkerComplete(r) /\ UNCHANGED apiVars
    \/ \E r \in 1..Len(runs) : WorkerExcept(r) /\ UNCHANGED apiVars
    \/ \E r \in 1..Len(runs) : RegistryFinallyTest(r)
    \/ \E r \in 1..Len(runs) : RegistryFinallyDelete(r)
    \/ \E r \in 1..Len(runs) : RegistryFinallyStates(r)

SpecRegistry == Init /\ [][NextRegistry]_vars

\* the same process during one clock second, running one long job with a
\* reliable browser session that is cancelled and recovered, with no restart
NextCadence ==
    \/ StartAutomation({ReqReliable}) /\ UNCHANGED apiVars
    \/ RecoverAutomation /\ UNCHANGED apiVars
    \/ CancelTask /\ UNCHANGED apiVars
    \/ \E r \in 1..Len(runs) : WorkerStart(r) /\ UNCHANGED apiVars
    \/ \E r \in 1..Len(runs) : WorkerLoop(r) /\ UNCHANGED apiVars
    \/ \E r \in 1..Len(runs) : WorkerAttempt(r) /\ UNCHANGED apiVars
    \/ \E r \in 1..Len(runs) : WorkerMark(r) /\ UNCHANGED apiVars
    \/ \E r \in 1..Len(runs) : WorkerComplete(r) /\ UNCHANGED apiVars
    \/ \E r \in 1..Len(runs) : WorkerExcept(r) /\ UNCHANGED apiVars
    \/ \E r \in 1..Len(runs) : WorkerFinally(r) /\ UNCHANGED apiVars

SpecCadence == Init /\ [][NextCadence]_vars

----------------------------------------------------------------------------
(* Snapshot files of two jobs, written by their runners while request       *)
(* handlers load and remove them                                            *)

FileJobs == {"test_task_123", "demo_task_001"}

\* no file of that name
NoFile == [absent |-> TRUE]

FileOf(fs, task_id) == IF HasSnapshot(fs, task_id) THEN fs[task_id] ELSE NoFile

\* api.saving: the jobs whose save_state is between open and close;
\* api.prev: the file of each job as it was before its last open
FilesInit ==
    /\ api = [phase |-> "files",
              st |-> [j \in FileJobs |->
                         NewAutomationState(j, "p", <<sA>>, <<sC>>,
                             [like |-> TRUE, retweet |-> FALSE, reply |-> TRUE],
                             1, 2, 1, 0)],
              saving |-> {},
              prev |-> [j \in FileJobs |-> NoFile]]
    /\ apiOut = [op |-> "none"]
    /\ SysInit

\* state.mark_task_processed(task['index'], success) in the runner of job j
FileMark(j) ==
    /\ j \notin api.saving
    /\ \E p \in 1..Len(api.st[j].paired_tasks), success \in BOOLEAN :
          api' = [api EXCEPT !.st[j] = MarkTaskProcessed(@, api.st[j].paired_tasks[p].index, success, 0)]
    /\ apiOut' = [op |-> "mark", task_id |-> j]
    /\ UNCHANGED files

\* save_state, line 777: open(state_file, 'w') leaves an empty file
FileSaveOpen(j) ==
    /\ j \notin api.saving
    /\ api' = [api EXCEPT !.saving = @ \cup {j}, !.prev[j] = FileOf(files, j)]
    /\ files' = (j :> PartialFile(0)) @@ files
    /\ apiOut' = [op |-> "open", task_id |-> j]

\* save_state, line 778: json.dump has written part of the text and the
\* buffer of f was flushed
FileSaveFlush(j) ==
    /\ j \in api.saving
    /\ files[j] = PartialFile(0)
    /\ \E written \in {1, Len(SnapshotKeys) - 1} :
          files' = (j :> PartialFile(written)) @@ files
    /\ apiOut' = [op |-> "flush", task_id |-> j]
    /\ UNCHANGED api

\* save_state, end of the with block: the whole text is in the file
FileSaveClose(j) ==
    /\ j \in api.saving
    /\ api' = [api EXCEPT !.saving = @ \ {j}, !.prev[j] = NoFile]
    /\ files' = SaveState(files, api.st[j])
    /\ apiOut' = [op |-> "close", task_id |-> j]

\* AutomationState.load_state(j) in a request handler
FileLoad(j) ==
    /\ apiOut' = [op |-> "load", task_id |-> j,
                  during_save |-> j \in api.saving,
                  file |-> FileOf(files, j),
                  result |-> LoadState(files, j, now)]
    /\ UNCHANGED <<api, files>>

\* state.cleanup() of job j
FileCleanup(j) ==
    /\ j \notin api.saving
    /\ files' = Cleanup(files, j)
    /\ apiOut' = [op |-> "cleanup", task_id |-> j, existed |-> HasSnapshot(files, j)]
    /\ UNCHANGED api

\* the keys left out of a foreign document: one that the constructor call
\* of load_state reads, one that its restore reads, and the one it does not
\* read
ForeignDrops == {"task_id", "processed_tasks", "stats"}

\* a snapshot file that was not written by this save_state: the document
\* of job j without one of its keys
FileForeign(j) ==
    /\ j \notin api.saving
    /\ HasSnapshot(files, j)
    /\ DOMAIN files[j] = ToSet(SnapshotKeys)
    /\ \E key \in ForeignDrops :
          files' = (j :> [k \in DOMAIN files[j] \ {key} |-> files[j][k]]) @@ files
    /\ apiOut' = [op |-> "foreign", task_id |-> j]
    /\ UNCHANGED api

filesFrame == UNCHANGED <<now, runs, automation_states, active_threads, task_status, task_file, resp, crashes, cancels, fresh>>

FilesNext ==
    \/ \E j \in FileJobs : FileMark(j) /\ filesFrame
    \/ \E j \in FileJobs : FileSaveOpen(j) /\ filesFrame
    \/ \E j \in FileJobs : FileSaveFlush(j) /\ filesFrame
    \/ \E j \in FileJobs : FileSaveClose(j) /\ filesFrame
    \/ \E j \in FileJobs : FileLoad(j) /\ filesFrame
    \/ \E j \in FileJobs : FileCleanup(j) /\ filesFrame
    \/ \E j \in FileJobs : FileForeign(j) /\ filesFrame

SpecFiles == FilesInit /\ [][FilesNext]_vars

----------------------------------------------------------------------------
(* Direct use of a TaskStateManager, as TEST/test_persistent_tasks.py does *)

StoreIds == {"test_task_1", "test_task_2"}

\* the task_data of an add_task call at time t
TestTasks(t) ==
    {[type |-> "scraping", status |-> "running", progress |-> 25, total |-> 10, current |-> 2, logs |-> <<"Task started">>, start_time |-> t],
     [type |-> "automation", status |-> "completed", progress |-> 100, total |-> 5, current |-> 5, logs |-> <<"Task completed">>, start_time |-> t],
     [type |-> "automation", status |-> "error", progress |-> 0, total |-> 5, current |-> 0, logs |-> <<>>]}

\* the updates of an update_task call
TestUpdates ==
    {[progress |-> 50, current |-> 5, logs |-> <<"Task started", "Processing item 5">>],
     [status |-> "cancelled"],
     [status |-> "completed", progress |-> 100]}

\* the max_age_hours of a cleanup_completed_tasks call: the test's and the
\* default of cleanup_old_tasks
TestMaxAges == {0, MaxAgeHours}

StoreInit ==
    /\ api = [phase |-> "store"]
    /\ apiOut = [op |-> "none"]
    /\ SysInit

\* time passes
StoreTick ==
    /\ now < MaxTime
    /\ now' = now + 1
    /\ apiOut' = [op |-> "tick"]
    /\ UNCHANGED <<task_status, task_file>>

\* manager.add_task(task_id, task_data)
StoreAddTask ==
    /\ \E task_id \in StoreIds, task_data \in TestTasks(now) :
          StoreTasks(AddTask(task_status, task_id, task_data))
    /\ apiOut' = [op |-> "add"]
    /\ UNCHANGED now

\* manager.update_task(task_id, updates)
StoreUpdateTask ==
    /\ \E task_id \in StoreIds, updates \in TestUpdates :
          StoreTasks(UpdateTask(task_status, task_id, updates))
    /\ apiOut' = [op |-> "update"]
    /\ UNCHANGED now

\* manager.remove_task(task_id)
StoreRemoveTask ==
    /\ \E task_id \in StoreIds :
          StoreTasks(RemoveTask(task_status, task_id))
    /\ apiOut' = [op |-> "remove"]
    /\ UNCHANGED now

\* manager.cleanup_completed_tasks(max_age_hours)
StoreCleanup ==
    /\ \E max_age_hours \in TestMaxAges :
          LET kept == CleanupCompletedTasks(task_status, max_age_hours, now)
          IN  /\ StoreTasks(kept)
              /\ apiOut' = [op |-> "cleanup", max_age_hours |-> max_age_hours,
                            removed |-> DOMAIN task_status \ DOMAIN kept]
    /\ UNCHANGED now

\* new_manager = TaskStateManager("test_task_state.json")
StoreReload ==
    /\ task_status' = LoadTasks(task_file)
    /\ apiOut' = [op |-> "reload", before |-> task_status]
    /\ UNCHANGED <<now, task_file>>

storeFrame == UNCHANGED <<api, runs, automation_states, active_threads, files, resp, crashes, cancels, fresh>>

StoreNext ==
    \/ StoreTick /\ storeFrame
    \/ StoreAddTask /\ storeFrame
    \/ StoreUpdateTask /\ storeFrame
    \/ StoreRemoveTask /\ storeFrame
    \/ StoreCleanup /\ storeFrame
    \/ StoreReload /\ storeFrame

SpecStore == StoreInit /\ [][StoreNext]_vars

----------------------------------------------------------------------------
(* Properties of the paired-task builder and the progress ledger *)

ApiItems == api.st.paired_tasks
ApiIndices == {ApiItems[p].index : p \in 1..Len(ApiItems)}
ApiMaxLength == Max(Len(api.st.tweet_links), Len(api.st.reply_comments))

\* the items of st whose index is not in processed, in original order
UnprocessedByIndex(st) ==
    LET Test(task) == task.index \notin st.processed_tasks
    IN  SelectSeq(st.paired_tasks, Test)

\* C5: get_remaining_tasks returns exactly the items whose index is not in
\* processed, in original order, for every builder output (gaps included)
\* and every set of indices marked through mark_task_processed.
C5_RemainingIsUnprocessedByIndex ==
    apiOut.op = "remaining" => apiOut.tasks = UnprocessedByIndex(api.st)

\* C6: after every mark_task_processed call processed has not shrunk and
\* successful and failed are disjoint, also when an index is marked again
\* with the opposite outcome.
C6_MarkKeepsOutcomesDisjoint ==
    apiOut.op = "mark" =>
        /\ apiOut.before \subseteq api.st.processed_tasks
        /\ api.st.successful_tasks \cap api.st.failed_tasks = {}

\* C7: in every ledger state reached by mark_task_processed calls from the
\* empty ledger, successful and failed are subsets of processed and their
\* union is processed.
C7_OutcomesCoverProcessed ==
    api.phase = "live" =>
        /\ api.st.successful_tasks \subseteq api.st.processed_tasks
        /\ api.st.failed_tasks \subseteq api.st.processed_tasks
        /\ api.st.successful_tasks \cup api.st.failed_tasks = api.st.processed_tasks

\* C7 witness: a ledger holding a successful and a failed index
C7_Witness ==
    /\ api.phase = "live"
    /\ api.st.successful_tasks # {}
    /\ api.st.failed_tasks # {}
    /\ apiOut.op = "mark"

\* C8: get_progress_stats reports processed_count = successful_count +
\* failed_count after any sequence of marks, and success_rate = 0 and
\* progress_percentage = 0 for a job without work items.
C8_StatsAccountForProcessed ==
    apiOut.op = "stats" =>
        /\ apiOut.stats.processed_count =
               apiOut.stats.successful_count + apiOut.stats.failed_count
        /\ apiOut.stats.total_tasks = 0 =>
               /\ apiOut.stats.success_rate = Zero
               /\ apiOut.stats.progress_percentage = Zero

\* C9: the indices of the items _create_paired_tasks yields are strictly
\* increasing along the list (hence pairwise distinct), each is at least 0
\* and smaller than max(len(tweet_links), len(reply_comments)); two empty
\* input lists yield no item.
C9_IndicesIncreasingAndBounded ==
    api.phase = "live" =>
        /\ \A p, q \in 1..Len(ApiItems) :
               p < q => ApiItems[p].index < ApiItems[q].index
        /\ \A p \in 1..Len(ApiItems) :
               ApiItems[p].index >= 0 /\ ApiItems[p].index < ApiMaxLength
        /\ (api.st.tweet_links = <<>> /\ api.st.reply_comments = <<>>)
               => ApiItems = <<>>

\* C9 witness: two items were built from lists of different lengths
C9_Witness ==
    /\ api.phase = "live"
    /\ Len(ApiItems) = 2
    /\ ApiItems[2].index = 1
    /\ Len(api.st.reply_comments) < Len(api.st.tweet_links)

\* C10: an item with index i exists exactly for the positions i whose
\* trimmed target is non-empty; it carries the trimmed target of position i
\* and the trimmed annotation of position i, or the empty string when the
\* annotation list is too short; a dropped position leaves a gap.
C10_ItemsAreTheNonEmptyTargets ==
    api.phase = "live" =>
        /\ ApiIndices \subseteq 0..(ApiMaxLength - 1)
        /\ Cardinality(ApiIndices) = Len(ApiItems)
        /\ \A i \in 0..(ApiMaxLength - 1) :
               LET target == IF i < Len(api.st.tweet_links)
                             THEN api.st.tweet_links[i + 1] ELSE sEmpty
                   annotation == IF i < Len(api.st.reply_comments)
                                 THEN api.st.reply_comments[i + 1] ELSE sEmpty
               IN  /\ (i \in ApiIndices) <=> (Strip(target) # sEmpty)
                   /\ \A p \in 1..Len(ApiItems) :
                          ApiItems[p].index = i =>
                              /\ ApiItems[p].tweet_url = Strip(target)
                              /\ ApiItems[p].comment = Strip(annotation)

\* C10 witness: position 0 was dropped, and the item of position 1 carries
\* a trimmed target and the empty annotation of a too short comment list
C10_Witness ==
    /\ api.phase = "live"
    /\ api.st.tweet_links = <<sBlank, sPadB>>
    /\ api.st.reply_comments = <<sA>>
    /\ Len(ApiItems) = 1
    /\ ApiItems[1].index = 1
    /\ ApiItems[1].tweet_url = <<"b">>
    /\ ApiItems[1].comment = sEmpty

\* C11: load_state after save_state returns a job with the same work items
\* (indices with their gaps, targets, annotations), the same processed,
\* successful and failed sets, the same actions, timing policy,
\* current_index and timestamps as the saved job, and saving the loaded job
\* again writes the same snapshot.
C11_LoadAfterSaveIsTheSameJob ==
    apiOut.op = "reload" =>
        /\ apiOut.found
        /\ apiOut.loaded.paired_tasks = api.st.paired_tasks
        /\ apiOut.loaded.processed_tasks = api.st.processed_tasks
        /\ apiOut.loaded.successful_tasks = api.st.successful_tasks
        /\ apiOut.loaded.failed_tasks = api.st.failed_tasks
        /\ apiOut.loaded.task_id = api.st.task_id
        /\ apiOut.loaded.profile_name = api.st.profile_name
        /\ apiOut.loaded.actions = api.st.actions
        /\ apiOut.loaded.min_wait = api.st.min_wait
        /\ apiOut.loaded.max_wait = api.st.max_wait
        /\ apiOut.loaded.max_retries = api.st.max_retries
        /\ apiOut.loaded.current_index = api.st.current_index
        /\ apiOut.loaded.start_time = api.st.start_time
        /\ apiOut.loaded.last_updated = api.st.last_updated
        /\ Snapshot(apiOut.loaded) = apiOut.snapshot

\* a job with an index gap and a marked item has been saved and loaded
C11_Witness ==
    /\ apiOut.op = "reload"
    /\ Len(ApiItems) = 1
    /\ ApiItems[1].index = 1
    /\ api.st.processed_tasks = {1}
    /\ apiOut.loaded.paired_tasks[1].index = 1

----------------------------------------------------------------------------
(* Properties of recovery *)

\* the (target, annotation) pairs of a list of paired tasks, in order
Pairs(tasks) == [k \in 1..Len(tasks) |-> <<tasks[k].tweet_url, tasks[k].comment>>]

\* the targets of a list of paired tasks
Targets(tasks) == {tasks[k].tweet_url : k \in 1..Len(tasks)}

\* the items of st whose index is in processed
ProcessedByIndex(st) ==
    LET Test(task) == task.index \in st.processed_tasks
    IN  SelectSeq(st.paired_tasks, Test)

Recovered == {r \in 1..Len(runs) : runs[r].parent # NoParent}

\* r is a run of the job that run q was recovered from; q was started in a
\* later second than r, so that the two have different task ids
IsOriginalOf(r, q) == q \in Recovered /\ runs[r].task_id = runs[q].parent.task_id /\ runs[q].task_id # runs[r].task_id

\* C1: the job a successful recover starts has exactly the items of the old
\* job whose index is not in processed (index gaps included), each target
\* with its own annotation, in the same relative order.
C1_RecoveredItemsAreUnprocessed ==
    \A q \in Recovered :
        Pairs(runs[q].st.paired_tasks) = Pairs(UnprocessedByIndex(runs[q].parent.st))

\* C2: no work item is handed to the executor both by a runner of a job and
\* by the runner of a job recovered from it, under every interleaving of the
\* runner with cancel and recover requests.
C2_NoItemExecutedTwice ==
    \A r, q \in 1..Len(runs) :
        IsOriginalOf(r, q) => runs[r].executed \cap runs[q].executed = {}

\* a run of task_id was killed inside its loop, with an item still in hand
KilledMidRun(task_id) ==
    \E r \in 1..Len(runs) :
        runs[r].pc = "dead" /\ runs[r].mid_run /\ runs[r].task_id = task_id

\* the snapshot of task_id is on disk and has items whose index is not in
\* its processed list
SnapshotHasUnprocessed(task_id) ==
    /\ HasSnapshot(files, task_id)
    /\ UnprocessedByIndex(StateFromSnapshot(files[task_id], now)) # <<>>

\* C3: after a kill in the middle of a run with a saved snapshot that still
\* has unprocessed items, the first request after the restart being
\* recover(job_id), that request starts a new job and does not return an
\* error (an error response leaves the snapshot where it is).
C3_RecoverAfterRestartSucceeds ==
    (/\ resp.op = "recover"
     /\ resp.fresh
     /\ KilledMidRun(resp.task_id)
     /\ SnapshotHasUnprocessed(resp.task_id))
    => resp.code = 200

\* C4: a job recovered after a kill contains no item that the killed runner
\* had already marked processed.
C4_NoProcessedItemRecoveredAfterKill ==
    \A r, q \in 1..Len(runs) :
        (IsOriginalOf(r, q) /\ runs[r].pc = "dead" /\ runs[q].epoch > runs[r].epoch)
        => Targets(ProcessedByIndex(runs[r].st)) \cap Targets(runs[q].st.paired_tasks) = {}

----------------------------------------------------------------------------
(* Properties of the recover request *)

\* the step is the handling of a recover request for task_id
RecoverStep(task_id) == resp' # resp /\ resp'.op = "recover" /\ resp'.task_id = task_id

\* the step starts no runner and leaves the in-memory dicts, the status
\* store and the snapshot store as they were
NothingStarted == UNCHANGED <<runs, automation_states, active_threads, task_status, task_file, files>>

\* C12: recover(job_id) for a job_id with no snapshot returns the not-found
\* error, starts no runner, creates no status record and leaves both stores
\* unchanged.
C12_RecoverWithoutSnapshotIsNotFound ==
    [][\A task_id \in TaskIds :
          (RecoverStep(task_id) /\ ~HasSnapshot(files, task_id))
          => (resp'.code = 404 /\ NothingStarted)]_vars

\* not-found was answered while a job was registered and running
C12_Witness ==
    /\ resp.op = "recover"
    /\ resp.code = 404
    /\ \E r \in 1..Len(runs) : IsAlive(runs[r]) /\ StatusOf(task_status, runs[r].task_id) = "running"

\* C13: recover(job_id) while the status record of job_id says running and a
\* snapshot exists returns the already-running error, starts no runner and
\* neither deletes nor changes the snapshot.
C13_RecoverWhileRunningIsRefused ==
    [][\A task_id \in TaskIds :
          (/\ RecoverStep(task_id)
           /\ HasSnapshot(files, task_id)
           /\ StatusOf(task_status, task_id) = "running")
          => (/\ resp'.code = 400
              /\ resp'.error = "Task is already running"
              /\ NothingStarted)]_vars

\* already-running was answered for a job whose runner is alive and has
\* saved a snapshot
C13_Witness ==
    /\ resp.op = "recover"
    /\ resp.code = 400
    /\ resp.error = "Task is already running"
    /\ HasSnapshot(files, resp.task_id)
    /\ \E r \in 1..Len(runs) : IsAlive(runs[r]) /\ runs[r].task_id = resp.task_id

\* a run recovered from task_id (under a task id of its own) is alive and
\* its status record says running
RecoveredRunStillRunning(task_id) ==
    \E q \in Recovered :
        /\ runs[q].parent.task_id = task_id
        /\ runs[q].task_id # task_id
        /\ IsAlive(runs[q])
        /\ StatusOf(task_status, runs[q].task_id) = "running"

\* C14: a second recover(job_id), made while the run started by the first
\* recover(job_id) is still running, returns the already-running error and
\* starts no second runner.
C14_SecondRecoverIsRefused ==
    [][\A task_id \in TaskIds :
          (RecoverStep(task_id) /\ RecoveredRunStillRunning(task_id))
          => (/\ resp'.code = 400
              /\ resp'.error = "Task is already running"
              /\ runs' = runs)]_vars

\* the snapshot of task_id is on disk and every item of it has its index in
\* the processed list
SnapshotAllProcessed(task_id) ==
    /\ HasSnapshot(files, task_id)
    /\ UnprocessedByIndex(StateFromSnapshot(files[task_id], now)) = <<>>

\* C15: recover(job_id) on a snapshot in which every work item is processed
\* (the job not being registered as running) returns the nothing-remaining
\* error, creates no new job and leaves the snapshot in place.
C15_RecoverOfFinishedJobIsRefused ==
    [][\A task_id \in TaskIds :
          (/\ RecoverStep(task_id)
           /\ SnapshotAllProcessed(task_id)
           /\ StatusOf(task_status, task_id) # "running")
          => (/\ resp'.code = 400
              /\ resp'.error = "No remaining tweets to process"
              /\ NothingStarted)]_vars

\* C16: every successful recover(job_id) returns a new job id different from
\* job_id, whatever the time between the creation of the old job and the
\* recover request.
C16_RecoveredJobHasNewId ==
    (resp.op = "recover" /\ resp.code = 200) => resp.new_task_id # resp.task_id

\* the profile, actions and timing policy of recovered run q
RecoveredPolicyOf(q) == [profile_name |-> runs[q].st.profile_name, actions |-> runs[q].st.actions, min_wait |-> runs[q].st.min_wait, max_wait |-> runs[q].st.max_wait, max_retries |-> runs[q].st.max_retries]

\* the same fields of the snapshot q was recovered from
SnapshotPolicyOf(q) == [profile_name |-> runs[q].parent.st.profile_name, actions |-> runs[q].parent.st.actions, min_wait |-> runs[q].parent.st.min_wait, max_wait |-> runs[q].parent.st.max_wait, max_retries |-> runs[q].parent.st.max_retries]

\* C17: the job started by a successful recover has the profile, actions,
\* min_wait, max_wait and max_retries of the recovered snapshot, and starts
\* with an empty ledger.
C17_RecoveredJobKeepsPolicy ==
    \A q \in Recovered :
        /\ RecoveredPolicyOf(q) = SnapshotPolicyOf(q)
        /\ runs[q].pc = "start" => runs[q].st.processed_tasks = {}

\* a job with max_retries other than the default has been recovered and
\* its new runner has started working
C17_Witness ==
    \E q \in Recovered :
        /\ runs[q].parent.st.max_retries = 2
        /\ runs[q].parent.st.min_wait = runs[q].parent.st.max_wait
        /\ runs[q].pc = "exec"

----------------------------------------------------------------------------
(* Properties of cancellation and of runs that end in error *)

\* C18: when the runner left its item loop because it observed a
\* cancellation, the status is never set to completed and is cancelled once
\* the runner has finished.
C18_CancelledRunStaysCancelled ==
    \A r \in 1..Len(runs) :
        runs[r].broke =>
            /\ StatusOf(task_status, runs[r].task_id) # "completed"
            /\ runs[r].pc = "done" => StatusOf(task_status, runs[r].task_id) = "cancelled"

\* C19: once cancel(job_id) has set the status to cancelled, the runner of
\* the job starts the execution of no further item: it finishes at most the
\* item in flight, whatever is written to the status record in between.
C19_NoItemStartedAfterCancel ==
    [][\A r \in 1..Len(runs) :
          (runs[r].cancel_requested /\ runs[r].pc = "loop") => runs'[r].pc # "exec"]_vars

\* the run has ended and its status record says error; no recover request
\* has been accepted, which would delete the snapshot
EndedInError(r) ==
    /\ runs[r].pc = "done"
    /\ StatusOf(task_status, runs[r].task_id) = "error"
    /\ Recovered = {}

\* C20: whenever a run has ended with status error, a snapshot of the job
\* with its ledger as of that moment is in storage.
C20_ErrorLeavesSnapshot ==
    \A r \in 1..Len(runs) :
        EndedInError(r) =>
            /\ HasSnapshot(files, runs[r].task_id)
            /\ ToSet(files[runs[r].task_id].processed_tasks) = runs[r].st.processed_tasks

----------------------------------------------------------------------------
(* Properties of the worker *)

\* the step is run r's step out of program point pc
WorkerStepFrom(r, pc) == runs[r].pc = pc /\ runs'[r].pc # "dead" /\ (runs'[r].pc # pc \/ runs'[r].attempt # runs[r].attempt)

\* C21: an item-level failure never aborts the job: the processing of an
\* item ends in the marking of the item, whatever the executor reported or
\* raised, and when every attempt failed the item is marked failed, the
\* status record is left as it is and the runner is back at the head of
\* its loop with the next item.
C21_ItemFailureDoesNotAbort ==
    [][\A r \in 1..Len(runs) :
          /\ WorkerStepFrom(r, "exec") => runs'[r].pc \in {"exec", "mark"}
          /\ (WorkerStepFrom(r, "mark") /\ ~runs[r].success)
             => (/\ runs[r].remaining[runs[r].i + 1].index \in runs'[r].st.failed_tasks
                 /\ runs[r].remaining[runs[r].i + 1].index \in runs'[r].st.processed_tasks
                 /\ task_status' = task_status
                 /\ runs'[r].pc = "loop"
                 /\ runs'[r].i = runs[r].i + 1)]_vars

\* after the failure of its first item a runner is executing its second
\* item, the status still running
C21_Witness ==
    \E r \in 1..Len(runs) :
        /\ runs[r].pc = "exec"
        /\ runs[r].i = 1
        /\ runs[r].st.failed_tasks # {}
        /\ StatusOf(task_status, runs[r].task_id) = "running"

\* the runner of r has set the status to completed after its loop, with
\* every item of the job processed; the job was never cancelled and no
\* recover request has been accepted
CompletedInFull(r) ==
    /\ runs[r].pc \in {"finally", "done"}
    /\ StatusOf(task_status, runs[r].task_id) = "completed"
    /\ ~runs[r].broke
    /\ \A k \in 1..Len(runs[r].st.paired_tasks) : runs[r].st.paired_tasks[k].index \in runs[r].st.processed_tasks
    /\ Recovered = {}

\* C22: once a run has completed with every item processed, no snapshot of
\* the job is left in storage.
C22_CompletedJobHasNoSnapshot ==
    \A r \in 1..Len(runs) : CompletedInFull(r) => ~HasSnapshot(files, runs[r].task_id)

----------------------------------------------------------------------------
(* Properties of the snapshot files *)

\* what load_state returns for a file content
LoadOf(content, task_id) == IF content = NoFile THEN None ELSE LoadState((task_id :> content), task_id, 0)

\* C23: a load_state that runs while save_state of the same job is between
\* open and close returns what the previous file gives or what the new
\* file will give.
C23_ReaderSeesOldOrNewSnapshot ==
    \A j \in FileJobs :
        (apiOut.op = "load" /\ apiOut.task_id = j /\ apiOut.during_save)
            => apiOut.result \in {LoadOf(api.prev[j], j), LoadOf(Snapshot(api.st[j]), j)}

\* the content is not a document as save_state writes it
Malformed(content) == content # NoFile /\ DOMAIN content # ToSet(SnapshotKeys)

CleanupStep(j) == apiOut'.op = "cleanup" /\ apiOut'.task_id = j /\ j \notin api.saving

\* C25: cleanup of job j leaves no file of j, so that load_state(j) is
\* None, changes nothing when there was none (a second call included), and
\* leaves the file of every other job as it was.
C25_CleanupIsIdempotentAndLocal ==
    [][\A j \in FileJobs :
          CleanupStep(j) =>
              /\ ~HasSnapshot(files', j)
              /\ LoadState(files', j, 0) = None
              /\ ~HasSnapshot(files, j) => files' = files
              /\ \A k \in FileJobs \ {j} : FileOf(files', k) = FileOf(files, k)]_vars

\* a second cleanup of one job in a row, the other job's snapshot in place
C25_Witness ==
    /\ apiOut.op = "cleanup"
    /\ ~apiOut.existed
    /\ \E k \in FileJobs \ {apiOut.task_id} : HasSnapshot(files, k) /\ JsonLoads(files[k])

----------------------------------------------------------------------------
(* Properties of the start request *)

\* the request that created run r had a target, an enabled action and a
\* waiting interval with min_wait <= max_wait
FromValidRequest(r) ==
    /\ runs[r].st.tweet_links # <<>>
    /\ \E a \in DOMAIN runs[r].st.actions : runs[r].st.actions[a]
    /\ runs[r].st.min_wait <= runs[r].st.max_wait

\* C26: no job, status record or runner thread exists for a start request
\* with no target, with no enabled action or with min_wait above max_wait.
C26_NoJobForInvalidRequest ==
    \A r \in 1..Len(runs) : runs[r].parent = NoParent => FromValidRequest(r)

----------------------------------------------------------------------------
(* Properties of the status record store *)

\* C27: after any sequence of add_task, update_task and remove_task calls
\* the state file holds the mapping the manager holds, and a manager newly
\* constructed on the file holds the mapping the old one held.
C27_StoreSurvivesRestart ==
    /\ task_file = task_status
    /\ apiOut.op = "reload" => task_status = apiOut.before

\* a new manager was constructed after an update of a record
C27_Witness ==
    /\ apiOut.op = "reload"
    /\ \E k \in DOMAIN task_status : task_status[k].progress = 50 /\ Len(task_status[k].logs) = 2

\* record rec is of a finished task that started before the cutoff
OldAndFinished(rec, cutoff_time) ==
    /\ rec.status \in {"completed", "error", "cancelled"}
    /\ "start_time" \in DOMAIN rec
    /\ rec.start_time < cutoff_time

\* C28: a cleanup_completed_tasks(max_age_hours) call removes exactly the
\* records that are completed, error or cancelled and started before the
\* cutoff, and changes no other record.
C28_CleanupRemovesExactlyOldFinished ==
    [][apiOut'.op = "cleanup" =>
          LET cutoff_time == now - apiOut'.max_age_hours * SecondsPerHour
          IN  /\ DOMAIN task_status' = {k \in DOMAIN task_status : ~OldAndFinished(task_status[k], cutoff_time)}
              /\ \A k \in DOMAIN task_status' : task_status'[k] = task_status[k]]_vars

\* a cleanup removed a record and left a running record that is as old
C28_Witness ==
    /\ apiOut.op = "cleanup"
    /\ apiOut.removed # {}
    /\ \E k \in DOMAIN task_status : task_status[k].status = "running" /\ task_status[k].start_time < now

----------------------------------------------------------------------------
(* Properties of job identity and of the status record *)

\* C29: any two jobs, started by a start or a recover request, have
\* different job ids.
C29_JobIdsAreDistinct ==
    \A r, q \in 1..Len(runs) : r # q => runs[r].task_id # runs[q].task_id

\* C30: every status record has a status among running, completed, error
\* and cancelled, a progress between 0 and 100, and 0 <= current <= total.
C30_StatusRecordIsWellFormed ==
    \A k \in DOMAIN task_status :
        /\ task_status[k].status \in {"running", "completed", "error", "cancelled"}
        /\ task_status[k].progress \in 0..100
        /\ 0 <= task_status[k].current
        /\ task_status[k].current <= task_status[k].total

----------------------------------------------------------------------------
(* Properties of the retry loop *)

\* the executor returned and reported true for every enabled action
EnabledAllTrue(results, actions) ==
    /\ results # NoResults
    /\ results # Raised
    /\ \A a \in DOMAIN actions : actions[a] => results[a]

\* C31: for one item the executor is called at most max_retries times; the
\* attempt in which every enabled action reports true is the last one and
\* makes the result success; the result is success only then, whatever the
\* disabled actions report; another attempt is made only while fewer than
\* max_retries were made.
C31_RetriesStopAtFirstSuccess ==
    [][\A r \in 1..Len(runs) :
          WorkerStepFrom(r, "exec") =>
              /\ runs'[r].calls <= runs[r].st.max_retries
              /\ (runs'[r].calls > runs[r].calls /\ EnabledAllTrue(runs'[r].results, runs[r].st.actions))
                 => (runs'[r].pc = "mark" /\ runs'[r].success)
              /\ runs'[r].pc = "mark"
                 => (runs'[r].success <=> EnabledAllTrue(runs'[r].results, runs[r].st.actions))
              /\ runs'[r].pc = "exec" => runs'[r].calls < runs[r].st.max_retries]_vars

\* the second attempt for an item succeeded, with an action disabled
C31_Witness ==
    \E r \in 1..Len(runs) :
        /\ runs[r].pc = "mark"
        /\ runs[r].success
        /\ runs[r].calls = 2
        /\ \E a \in DOMAIN runs[r].st.actions : ~runs[r].st.actions[a]

\* C39: every item marked processed by a runner was handed to the executor
\* by that runner at least once.
C39_MarkedItemWasAttempted ==
    \A r \in 1..Len(runs) :
        \A k \in 1..Len(runs[r].st.paired_tasks) :
            runs[r].st.paired_tasks[k].index \in runs[r].st.processed_tasks
                => runs[r].st.paired_tasks[k].tweet_url \in runs[r].executed

----------------------------------------------------------------------------
(* Properties of the persistence cadence *)

\* the processed indices of the stored snapshot of a job, none when there
\* is no snapshot
StoredProcessed(task_id) == IF HasSnapshot(files, task_id) THEN ToSet(files[task_id].processed_tasks) ELSE {}

\* the stored snapshot of the job of run r has the ledger of r
SnapshotHasLedgerOf(r) ==
    /\ HasSnapshot(files', runs[r].task_id)
    /\ ToSet(files'[runs[r].task_id].processed_tasks) = runs'[r].st.processed_tasks
    /\ ToSet(files'[runs[r].task_id].successful_tasks) = runs'[r].st.successful_tasks
    /\ ToSet(files'[runs[r].task_id].failed_tasks) = runs'[r].st.failed_tasks

\* C32: when the runner has marked the k-th item of its run, k a multiple
\* of 3, and when it has left its loop and made its final save, the stored
\* snapshot has the ledger of the runner; at every item boundary the
\* stored snapshot misses at most 2 of the items the runner has marked.
C32_SnapshotMissesAtMostTwo ==
    /\ [][\A r \in 1..Len(runs) :
             /\ (WorkerStepFrom(r, "mark") /\ (runs[r].i + 1) % 3 = 0) => SnapshotHasLedgerOf(r)
             /\ WorkerStepFrom(r, "final") => SnapshotHasLedgerOf(r)]_vars
    /\ [](\A r \in 1..Len(runs) :
             runs[r].pc = "loop" => Cardinality(runs[r].st.processed_tasks \ StoredProcessed(runs[r].task_id)) <= 2)

----------------------------------------------------------------------------
(* Properties of the order of execution within one run *)

\* the indices of the first n items of the order of run r
IndicesUpTo(r, n) == {runs[r].remaining[k].index : k \in 1..n}

\* the run is in its loop with local list and counter alive
Looping(r) == runs[r].pc \in {"loop", "exec", "mark"}

\* C33: within one run the order fixed at run start never changes, the
\* runner has one item in hand at a time (the one at its counter), which is
\* the only one it hands to the executor and the only one it marks, and the
\* counter moves on by one with every mark: the marked items are exactly the
\* first i items of the order, each of them once.
C33_OneItemAtATimeInShuffledOrder ==
    /\ [][\A r \in 1..Len(runs) :
             /\ (Looping(r) /\ IsAlive(runs'[r])) => runs'[r].remaining = runs[r].remaining
             /\ WorkerStepFrom(r, "loop") =>
                    /\ runs'[r].i = runs[r].i
                    /\ runs'[r].st.processed_tasks = runs[r].st.processed_tasks
                    /\ runs'[r].executed = runs[r].executed
             /\ WorkerStepFrom(r, "exec") =>
                    /\ runs'[r].i = runs[r].i
                    /\ runs'[r].st.processed_tasks = runs[r].st.processed_tasks
                    /\ runs'[r].executed \subseteq runs[r].executed \cup {runs[r].remaining[runs[r].i + 1].tweet_url}
             /\ WorkerStepFrom(r, "mark") =>
                    /\ runs'[r].st.processed_tasks = runs[r].st.processed_tasks \cup {runs[r].remaining[runs[r].i + 1].index}
                    /\ runs'[r].executed = runs[r].executed
                    /\ runs'[r].pc = "loop" => runs'[r].i = runs[r].i + 1]_vars
    /\ [](\A r \in 1..Len(runs) :
             Looping(r) =>
                 /\ runs[r].i <= Len(runs[r].remaining)
                 /\ runs[r].pc \in {"exec", "mark"} => runs[r].i < Len(runs[r].remaining)
                 /\ runs[r].st.processed_tasks = IndicesUpTo(r, runs[r].i)
                 /\ Cardinality(runs[r].st.processed_tasks) = runs[r].i
                 /\ \A k \in runs[r].i + 2..Len(runs[r].remaining) : runs[r].remaining[k].tweet_url \notin runs[r].executed \/ \E j \in 1..runs[r].i + 1 : runs[r].remaining[j].tweet_url = runs[r].remaining[k].tweet_url)

\* a runner has marked both items of its job in the order opposite to that
\* of the request and is about to leave its loop
C33_Witness ==
    \E r \in 1..Len(runs) :
        /\ runs[r].pc = "loop"
        /\ runs[r].i = 2
        /\ Len(runs[r].remaining) = 2
        /\ runs[r].remaining[1].index > runs[r].remaining[2].index
        /\ Cardinality(runs[r].executed) = 2

----------------------------------------------------------------------------
(* Termination of a run *)

\* run r has initialised its executor: it is at the head of its loop
Initialised(r) == r \in 1..Len(runs) /\ runs[r].pc = "loop"

\* the thread of run r has met a fatal error: it is in the except clause
\* of the worker
FatalError(r) == r \in 1..Len(runs) /\ runs[r].pc = "except"

\* every item of the job of run r is processed, the status of the job is
\* completed and the thread has ended
Terminated(r) ==
    /\ r \in 1..Len(runs)
    /\ runs[r].pc = "done"
    /\ \A k \in 1..Len(runs[r].st.paired_tasks) : runs[r].st.paired_tasks[k].index \in runs[r].st.processed_tasks
    /\ StatusOf(task_status, runs[r].task_id) = "completed"

----------------------------------------------------------------------------
(* Properties of the snapshot of a recovered job *)

\* C35: once recover(job_id) has started a new job, job_id has no snapshot
\* in any later state, whatever thread takes a step, and every later
\* recover(job_id) returns the not-found error.
C35_RecoveredSnapshotStaysDeleted ==
    /\ [](\A q \in Recovered : ~HasSnapshot(files, runs[q].parent.task_id))
    /\ [][\A q \in Recovered : RecoverStep(runs[q].parent.task_id) => resp'.code = 404]_vars

----------------------------------------------------------------------------
(* Properties of the progress statistics *)

\* C36: in every state of a job, with or without index gaps, the
\* remaining_count of get_progress_stats is the number of items that
\* get_remaining_tasks returns, and processed_count is at most total_tasks.
C36_StatsAgreeWithRemaining ==
    api.phase = "live" =>
        /\ GetProgressStats(api.st).remaining_count = Len(GetRemainingTasks(api.st))
        /\ GetProgressStats(api.st).processed_count <= GetProgressStats(api.st).total_tasks

----------------------------------------------------------------------------
(* Properties of the status of a finished job *)

\* the statuses with which a runner ends
EndStatuses == {"completed", "error"}

\* C37: a record whose status is completed or error keeps that status in
\* every later step, a cancel request included, and no record that has left
\* status running returns to it.
C37_TerminalStatusIsStable ==
    [][\A task_id \in DOMAIN task_status \cap DOMAIN task_status' :
          /\ StatusOf(task_status, task_id) \in EndStatuses
                 => StatusOf(task_status', task_id) = StatusOf(task_status, task_id)
          /\ StatusOf(task_status, task_id) # "running"
                 => StatusOf(task_status', task_id) # "running"]_vars

----------------------------------------------------------------------------
(* Properties of the thread registry *)

\* the cancel request for the job of run r has been answered
CancelFinishedFor(r) == api.phase \in {"cancel_done", "cancel_failed"} /\ api.task_id = runs[r].task_id

\* C38: under every interleaving of cancel(job_id) with the end of the
\* job's runner thread, the cancel request does not fail on a missing
\* active_threads entry, the runner does not fail on one either, and once
\* both have finished job_id is in neither active_threads nor
\* automation_states.
C38_RegistryIsRaceFree ==
    /\ api.phase # "cancel_failed"
    /\ \A r \in 1..Len(runs) :
          /\ runs[r].pc = "done" => runs[r].results # Raised
          /\ (runs[r].pc = "done" /\ CancelFinishedFor(r)) =>
                 /\ runs[r].task_id \notin DOMAIN active_threads
                 /\ runs[r].task_id \notin DOMAIN automation_states

====
